---- MODULE Spec2Model ----
(***************************************************************************)
(* Model of the quota / access-code ledger of AuthAudioBot                 *)
(* (src/database.py) and of the /tts, /mycode and /start handlers that     *)
(* drive it (src/telegram_bot.py, src/admin_panel.py).                     *)
(*                                                                         *)
(* The store is one SQLite file.  Every Database method opens its own      *)
(* connection; a method that raises before conn.close() leaves its         *)
(* connection, and any write transaction it had begun, to the garbage      *)
(* collector.  Until that connection is finalised its changes are not      *)
(* visible to any other connection and every other writer fails with       *)
(* "database is locked"; finalisation rolls the transaction back.          *)
(* The variables users/codes/history hold the committed contents.          *)
(*                                                                         *)
(* The audio pipeline (src/minimax_api.py) is the variable pipe: one       *)
(* generate_tts call at a time, followed from await to await, with the     *)
(* files it leaves in the temporary directory.  The variable voices is    *)
(* the voice_models table as the admin panel's routes see it.              *)
(***************************************************************************)
EXTENDS Integers, Sequences, FiniteSets, Bags, TLC

\* ------------------------------------------------------------------ bounds
MaxTime == 1          \* the clock runs 0..MaxTime
MaxUserId == 2        \* AUTOINCREMENT ids handed out to user rows
MaxRedeem == 3        \* redemptions counted on one code
MaxHistory == 1       \* usage_history rows
MaxReq == 2           \* /tts requests in flight at once
MaxCalls == 2         \* generate_tts calls

\* ------------------------------------------------------------------ inputs
TelegramIds == {1, 2}

\* string.ascii_uppercase + string.digits
Letters ==
    {"A", "B", "C", "D", "E", "F", "G", "H", "I", "J", "K", "L", "M",
     "N", "O", "P", "Q", "R", "S", "T", "U", "V", "W", "X", "Y", "Z",
     "0", "1", "2", "3", "4", "5", "6", "7", "8", "9"}

\* random.choices(letters, k=15)
TokenLen == 15

\* ''.join(...) of the symbols drawn, from position i on.
RECURSIVE Join(_, _)
Join(draw, i) == IF i > Len(draw) THEN "" ELSE draw[i] \o Join(draw, i + 1)

\* code = f"TTS-{random_part}"
Code(draw) == "TTS-" \o Join(draw, 1)

\* The draws random.choices makes while the model runs, and one it never
\* makes.
Draws == {[i \in 1..TokenLen |-> "A"]}
NeverDrawn == [i \in 1..TokenLen |-> "X"]

Tokens == {Code(d) : d \in Draws}
CodeInputs == Tokens \cup {Code(NeverDrawn)}   \* typed after /mycode
QuotaChoices == {-1, 2}
DayChoices == {0, 1}
MaxUsersChoices == {0, 2}
TextLens == {1, 2}
\* The chat that sends /tts; the other telegram id owns a bystander row.
TtsSenders == {1}

NULL == "NULL"
NoExpiry == -1

\* ---------------------------------------------------------------- messages
MsgInvalid == "Invalid or inactive access code"
MsgExpired == "Access code has expired"
MsgLimit == "Access code user limit reached"
MsgActivated == "Access code activated"
MsgError == "Error: database is locked"
MsgFault == "Error: disk I/O error"
MsgNone == ""

VARIABLES users, codes, history, nextId, now, dbLocked, reqs, last, pipe,
          voices

vars == <<users, codes, history, nextId, now, dbLocked, reqs, last, pipe, voices>>

\* A row the users table gets from an INSERT that names only the profile
\* columns: access_code NULL, quota_total 0, quota_used 0.
NewUserRow(id) ==
    [id |-> id, access_code |-> NULL, quota_total |-> 0, quota_used |-> 0]

\* quota_remaining is a generated column.
QuotaRemaining(row) == row.quota_total - row.quota_used

\* What the step just taken was and what it returned to its caller.
Result(op, user, code, n, success, message, debit, histOk, reported, fault) ==
    [op |-> op, user |-> user, code |-> code, n |-> n, success |-> success,
     message |-> message, debit |-> debit, histOk |-> histOk,
     reported |-> reported, fault |-> fault]

Step(op) == Result(op, 0, NULL, 0, FALSE, MsgNone, FALSE, FALSE, 0, "none")

\* ------------------------------------------------------------ voice_models
\* The voice_id init_db inserts, and one an administrator registers.
DefaultVoice == "moss_audio_4d4208c8-b67d-11f0-afaf-868268514f62"
VoiceIds == {DefaultVoice, "voice-b"}

\* ------------------------------------------------------- the audio pipeline
\* The temporary files of the k-th generate_tts call: the file
\* NamedTemporaryFile(suffix='.mp3') creates and the transcoder's output.
Mp3(k) == <<k, "mp3">>
Ogg(k) == <<k, "ogg">>

\* The state of the pipeline: the call in progress (pc is the await it is
\* suspended in), the temporary directory, and what the call has done.
\*   bound      mp3_path and ogg_path have been assigned
\*   proc       the transcoder process the call waits for
\*   opened     that process has created its output file
\*   stray      calls whose transcoder outlived them without an output yet
\*   downloaded session.get has been issued
\*   started    create_subprocess_exec has returned a process
\*   len        len(text) of the call
\*   audio      len(audio_data) of the result, meta its other fields
\* 'format', 'codec', 'sample_rate', 'channels' of a success result
SuccessMeta ==
    [format |-> "ogg", codec |-> "libopus", sample_rate |-> 48000,
     channels |-> 1]
NoMeta == [format |-> "", codec |-> "", sample_rate |-> 0, channels |-> 0]

IdlePipe ==
    [call |-> 0, pc |-> "idle", files |-> {}, bound |-> FALSE,
     proc |-> "none", opened |-> FALSE, rc |-> 0, stray |-> {},
     downloaded |-> FALSE, started |-> FALSE, msg |-> "",
     result |-> "none", error |-> "", cause |-> "none",
     len |-> 0, audio |-> 0, meta |-> NoMeta]

Init ==
    /\ users = << >>
    /\ codes = << >>
    /\ history = << >>
    /\ nextId = 1
    /\ now = 0
    /\ dbLocked = FALSE
    /\ reqs = EmptyBag
    /\ last = Step("init")
    /\ pipe = IdlePipe
    /\ voices = {DefaultVoice}

\* ------------------------------------------------------------ environment
\* datetime.now() advances.
Tick ==
    /\ now < MaxTime
    /\ now' = now + 1
    /\ last' = Step("tick")
    /\ UNCHANGED <<users, codes, history, nextId, dbLocked, reqs, pipe, voices>>

\* The garbage collector finalises a leaked connection: its open
\* transaction is rolled back and the write lock is released.
CollectGarbage ==
    /\ dbLocked
    /\ dbLocked' = FALSE
    /\ last' = Step("gc")
    /\ UNCHANGED <<users, codes, history, nextId, now, reqs, pipe, voices>>

\* ---------------------------------------------------------------- add_user
\* INSERT OR REPLACE INTO users (telegram_id, username, first_name,
\* last_name, last_active): a row with the same telegram_id is deleted and a
\* fresh row, with a fresh id and default quota columns, takes its place.
UpsertUsers(us, u, id) ==
    [t \in (DOMAIN us) \cup {u} |-> IF t = u THEN NewUserRow(id) ELSE us[t]]

AddUser(u) ==
    /\ nextId <= MaxUserId
    /\ IF dbLocked
       THEN /\ last' = Result("add_user", u, NULL, 0, FALSE, MsgError,
                              FALSE, FALSE, 0, "none")
            /\ UNCHANGED <<users, nextId>>
       ELSE /\ users' = UpsertUsers(users, u, nextId)
            /\ nextId' = nextId + 1
            /\ last' = Result("add_user", u, NULL, 0, TRUE, MsgNone,
                              FALSE, FALSE, 0, "none")
    /\ UNCHANGED <<codes, history, now, dbLocked, reqs, pipe, voices>>

\* ------------------------------------------------------ create_access_code
\* INSERT INTO access_codes (code, quota_total, max_users, expiry_date,
\* notes): the other columns take their defaults.
NewCodeRowNoDays(quota, days, maxUsers, t) ==
    [quota_total |-> quota, quota_used |-> 0, max_users |-> maxUsers,
     current_users |-> 0, expiry_date |-> t, is_active |-> TRUE]

NewCodeRow(quota, days, maxUsers, t) ==
    [quota_total |-> quota, quota_used |-> 0, max_users |-> maxUsers,
     current_users |-> 0, expiry_date |-> t + days, is_active |-> TRUE]

InsertCode(cs, token, row) ==
    [t \in (DOMAIN cs) \cup {token} |-> IF t = token THEN row ELSE cs[t]]

\* code TEXT UNIQUE NOT NULL: the INSERT of a token that is already in the
\* table raises IntegrityError.
TokenCollidesNever(cs, token) == FALSE

TokenCollides(cs, token) == token \in DOMAIN cs

\* token stands for the value random.choices happened to draw.
CreateAccessCode(token, quota, days, maxUsers) ==
    /\ IF dbLocked
       THEN /\ last' = Result("create", 0, token, 0, FALSE, MsgNone,
                              FALSE, FALSE, 0, "none")
            /\ UNCHANGED <<codes, dbLocked>>
       ELSE IF TokenCollides(codes, token)
       THEN \* the except clause returns None and the connection is left
            \* open inside its transaction
            /\ dbLocked' = TRUE
            /\ last' = Result("create", 0, token, 0, FALSE, MsgNone,
                              FALSE, FALSE, 0, "unique")
            /\ UNCHANGED codes
       ELSE /\ codes' = InsertCode(codes, token,
                                   NewCodeRow(quota, days, maxUsers, now))
            /\ last' = Result("create", 0, token, 0, TRUE, MsgNone,
                              FALSE, FALSE, 0, "none")
            /\ UNCHANGED dbLocked
    /\ UNCHANGED <<users, history, nextId, now, reqs, pipe, voices>>

\* The is_active column is the operator's kill switch; no method of the
\* store sets it, it is cleared on the store directly.
DeactivateCode(c) ==
    /\ c \in DOMAIN codes
    /\ codes[c].is_active
    /\ ~dbLocked
    /\ codes' = [codes EXCEPT ![c].is_active = FALSE]
    /\ last' = Result("deactivate", 0, c, 0, TRUE, MsgNone,
                      FALSE, FALSE, 0, "none")
    /\ UNCHANGED <<users, history, nextId, now, dbLocked, reqs, pipe, voices>>

\* ---------------------------------------------------- activate_access_code
\* SELECT * FROM access_codes WHERE code = ? AND is_active = 1
CodeFound(cs, c) == c \in DOMAIN cs /\ cs[c].is_active

CodeExpiredInclusive(row, t) ==
    row.expiry_date # NoExpiry /\ t >= row.expiry_date

CodeExpired(row, t) == row.expiry_date # NoExpiry /\ t > row.expiry_date

LimitReachedStrict(row) == row.max_users > 0 /\ row.current_users > row.max_users

LimitReached(row) == row.max_users > 0 /\ row.current_users >= row.max_users

\* The message of the first check that refuses, MsgActivated when none does.
ActivateCheck(cs, c, t) ==
    IF ~CodeFound(cs, c) THEN MsgInvalid
    ELSE IF CodeExpired(cs[c], t) THEN MsgExpired
    ELSE IF LimitReached(cs[c]) THEN MsgLimit
    ELSE MsgActivated

\* UPDATE users SET access_code, quota_total, quota_used = 0
\* WHERE telegram_id = ?   (no row matches an unknown telegram_id)
UpdateUserCodeEveryRow(us, u, c, quota) ==
    [t \in DOMAIN us |->
        [us[t] EXCEPT !.access_code = c, !.quota_total = quota,
                      !.quota_used = 0]]

UpdateUserCode(us, u, c, quota) ==
    [t \in DOMAIN us |->
        IF t = u
        THEN [us[t] EXCEPT !.access_code = c, !.quota_total = quota,
                           !.quota_used = 0]
        ELSE us[t]]

\* UPDATE access_codes SET current_users + 1, quota_used + quota_total
UpdateCodeUsageCountOnly(cs, c) ==
    [cs EXCEPT ![c].current_users = @ + 1]

UpdateCodeUsage(cs, c) ==
    [cs EXCEPT ![c].current_users = @ + 1,
               ![c].quota_used = @ + cs[c].quota_total]

Faults == {"none", "between"}

\* Both UPDATEs run in the connection's one transaction; conn.commit()
\* after the second is the only point that publishes them.
ActivateVisibleUsersAutocommit(us, u, c, quota, fault) ==
    UpdateUserCode(us, u, c, quota)

ActivateVisibleUsers(us, u, c, quota, fault) ==
    IF fault = "none" THEN UpdateUserCode(us, u, c, quota) ELSE us

ActivateVisibleCodesRelease(cs, c, fault) ==
    IF fault = "none" THEN UpdateCodeUsage(cs, c)
    ELSE [cs EXCEPT ![c].current_users = @ - 1]

ActivateVisibleCodes(cs, c, fault) ==
    IF fault = "none" THEN UpdateCodeUsage(cs, c) ELSE cs

ActivateAccessCode(u, c, fault) ==
    /\ c \in DOMAIN codes => codes[c].current_users < MaxRedeem
    /\ LET msg == ActivateCheck(codes, c, now) IN
       IF msg # MsgActivated
       THEN /\ last' = Result("activate", u, c, 0, FALSE, msg,
                              FALSE, FALSE, 0, "none")
            /\ UNCHANGED <<users, codes, dbLocked>>
       ELSE IF dbLocked
       THEN \* the first UPDATE cannot take the write lock
            /\ last' = Result("activate", u, c, 0, FALSE, MsgError,
                              FALSE, FALSE, 0, "none")
            /\ UNCHANGED <<users, codes, dbLocked>>
       ELSE /\ users' = ActivateVisibleUsers(users, u, c,
                                             codes[c].quota_total, fault)
            /\ codes' = ActivateVisibleCodes(codes, c, fault)
            /\ dbLocked' = (fault # "none")
            /\ last' = Result("activate", u, c, 0, fault = "none",
                              IF fault = "none" THEN MsgActivated
                              ELSE MsgFault,
                              FALSE, FALSE, 0, fault)
    /\ UNCHANGED <<history, nextId, now, reqs, pipe, voices>>

\* --------------------------------------------------------------- use_quota
\* UPDATE users SET quota_used = quota_used + ?
\* WHERE telegram_id = ? AND quota_remaining >= ?      -> cursor.rowcount
UseQuotaAffected(us, u, n) ==
    IF u \in DOMAIN us /\ QuotaRemaining(us[u]) >= n THEN 1 ELSE 0

UseQuotaDebit(us, u, n) ==
    IF UseQuotaAffected(us, u, n) > 0
    THEN [us EXCEPT ![u].quota_used = @ + n]
    ELSE us

\* "UPDATE access_codes ac SET ... FROM users u WHERE ...": SQLite's UPDATE
\* takes a table alias only after AS, so preparing this statement raises
\* 'near "ac": syntax error' whenever it is reached.
CodeUsageStatementRuns == FALSE

CodeUsageStatementRaises == TRUE

\* What the statement would add to the code of the debited user.
UseQuotaCodeUsage(cs, us, u, n) ==
    IF u \in DOMAIN us /\ us[u].access_code \in DOMAIN cs
    THEN [cs EXCEPT ![us[u].access_code].quota_used = @ + n]
    ELSE cs

\* The call raises, and returns False from its except clause, when the
\* first UPDATE cannot take the write lock or when the second statement is
\* reached; conn.commit() is then never executed.
UseQuotaRaises(us, u, n, locked) ==
    locked \/ (UseQuotaAffected(us, u, n) > 0 /\ CodeUsageStatementRaises)

\* return affected > 0
UseQuotaReturns(us, u, n, locked) ==
    ~UseQuotaRaises(us, u, n, locked) /\ UseQuotaAffected(us, u, n) > 0

UseQuotaUsersAutocommit(us, u, n, locked) ==
    IF locked THEN us ELSE UseQuotaDebit(us, u, n)

\* The committed users table after the call.
UseQuotaUsers(us, u, n, locked) ==
    IF UseQuotaReturns(us, u, n, locked) THEN UseQuotaDebit(us, u, n) ELSE us

UseQuotaCodes(cs, us, u, n, locked) ==
    IF UseQuotaReturns(us, u, n, locked)
    THEN UseQuotaCodeUsage(cs, us, u, n)
    ELSE cs

\* The connection is abandoned inside its write transaction when the call
\* raised after the first UPDATE had run.
UseQuotaLeaks(us, u, n, locked) ==
    ~locked /\ UseQuotaAffected(us, u, n) > 0 /\ CodeUsageStatementRaises

\* ------------------------------------------------------------- add_history
\* SELECT id FROM users WHERE telegram_id = ?; INSERT INTO usage_history
AddHistoryReturns(us, u, locked) == u \in DOMAIN us /\ ~locked

AddHistoryRowsTruncating(h, us, u, n, locked) ==
    IF AddHistoryReturns(us, u, locked)
    THEN Append(h, [user_id |-> us[u].id, char_count |-> n])
    ELSE << >>

AddHistoryRows(h, us, u, n, locked) ==
    IF AddHistoryReturns(us, u, locked)
    THEN Append(h, [user_id |-> us[u].id, char_count |-> n])
    ELSE h

\* ---------------------------------------------------------- get_user_quota
\* None when the telegram_id has no row, otherwise the row's quota columns.
HasQuotaRecord(us, u) == u \in DOMAIN us

\* ------------------------------------------------------------- tts_command
\* if not user_quota or user_quota.get('remaining', 0) < len(text)
PreflightOk(us, u, n) == HasQuotaRecord(us, u) /\ ~(QuotaRemaining(us[u]) < n)

Available(us, u) == IF HasQuotaRecord(us, u) THEN QuotaRemaining(us[u]) ELSE 0

\* A handler suspended in the synthesis, with the quota it read before.
InFlight(u, n, remaining) == [user |-> u, n |-> n, remaining |-> remaining]

\* From the command to the first suspension of the handler.  reqs is the
\* bag of the handlers that are suspended in the synthesis.
TtsStart(u, n) ==
    /\ BagCardinality(reqs) < MaxReq
    /\ IF PreflightOk(users, u, n)
       THEN /\ reqs' = reqs (+) SetToBag({InFlight(u, n,
                                            QuotaRemaining(users[u]))})
            /\ last' = Result("tts_start", u, NULL, n, TRUE, MsgNone,
                              FALSE, FALSE, 0, "none")
       ELSE /\ last' = Result("tts", u, NULL, n, FALSE, "insufficient",
                              FALSE, FALSE, Available(users, u), "none")
            /\ UNCHANGED reqs
    /\ UNCHANGED <<users, codes, history, nextId, now, dbLocked, pipe, voices>>

\* The caption of the delivered audio: user_quota['remaining'] - len(text),
\* from the quota read before the synthesis.
Caption(req) == req.remaining - req.n

\* What the handler tells the user once the synthesis has succeeded; the
\* value use_quota returned is not looked at.
TtsOutcome(debit) == "delivered"

\* From the end of the synthesis to the end of the handler.  ok is the
\* result of generate_tts; gc tells whether a connection that use_quota
\* abandoned is finalised before add_history runs.
SynthesisFailedNever(ok) == FALSE

\* if not result['success']: edit the message and return
SynthesisFailed(ok) == ~ok

TtsFinish(req, ok, gc) ==
    /\ BagIn(req, reqs)
    /\ reqs' = reqs (-) SetToBag({req})
    /\ LET u == req.user
           n == req.n
       IN
       IF SynthesisFailed(ok)
       THEN /\ last' = Result("tts", u, NULL, n, FALSE, "error",
                              FALSE, FALSE, 0, "none")
            /\ UNCHANGED <<users, codes, history, dbLocked>>
       ELSE LET debit == UseQuotaReturns(users, u, n, dbLocked)
                us == UseQuotaUsers(users, u, n, dbLocked)
                locked == (dbLocked \/ UseQuotaLeaks(users, u, n, dbLocked))
                          /\ ~gc
                outcome == TtsOutcome(debit)
            IN
            /\ AddHistoryReturns(us, u, locked) => Len(history) < MaxHistory
            /\ users' = us
            /\ codes' = UseQuotaCodes(codes, users, u, n, dbLocked)
            /\ history' = AddHistoryRows(history, us, u, n, locked)
            /\ dbLocked' = locked
            /\ last' = Result("tts", u, NULL, n, outcome = "delivered",
                              outcome, debit,
                              AddHistoryReturns(us, u, locked),
                              Caption(req), "none")
    /\ UNCHANGED <<nextId, now, pipe, voices>>

\* ------------------------------------------------------------- check_quota
\* /myquota: "No access code set" when get_user_quota returned None;
\* otherwise the quota text, whose usage line divides by quota['total'].
QuotaReply(us, u) ==
    IF ~HasQuotaRecord(us, u) THEN "no access code"
    ELSE IF us[u].quota_total = 0 THEN "ZeroDivisionError"
    ELSE "quota"

CheckQuota(u) ==
    /\ last' = Result("myquota", u,
                      IF HasQuotaRecord(users, u) THEN users[u].access_code
                      ELSE NULL,
                      0, HasQuotaRecord(users, u), QuotaReply(users, u),
                      FALSE, FALSE, Available(users, u), "none")
    /\ UNCHANGED <<users, codes, history, nextId, now, dbLocked, reqs, pipe, voices>>

\* ------------------------------------------------------------ generate_tts
\* What the provider may put in base_resp.status_msg.
ProviderMsgs == {"login fail", "usage limit exceeded"}

ErrNoUrl == "No audio URL in response"
ErrFailedToProcess == "Failed to process audio"
ErrTimeout == "API timeout"
\* str(e) of the connection error aiohttp raises
ErrConnection == "Cannot connect to host"
\* str(e) of the UnboundLocalError the finally clause raises
ErrUnbound ==
    "cannot access local variable 'mp3_path' where it is not associated with a value"

\* f'API Error: {response.status}'
ApiErrorText(status) == "API Error: " \o status

ProviderErrorTextGeneric(msg) == "Minimax Error: Unknown error"

\* f'Minimax Error: {error_msg}'
ProviderErrorText(msg) == "Minimax Error: " \o msg

\* The call is over: the dict generate_tts returns, or the CancelledError
\* that leaves it.
Exit(p, result, error, cause) ==
    [p EXCEPT !.pc = "done", !.result = result, !.error = error,
              !.cause = cause]

\* for path in [mp3_path, ogg_path]: if os.path.exists(path): os.unlink(path)
Cleanup(files, k) == files \ {Mp3(k), Ogg(k)}

FinallyRaisesNever(bound) == FALSE

\* The finally clause reads mp3_path and ogg_path; before their assignment
\* that read raises UnboundLocalError.
FinallyRaises(bound) == ~bound

\* _download_and_convert leaves through "return None" (directly or from its
\* except clause): the finally clause runs; when it raises, the exception
\* reaches generate_tts' "except Exception", otherwise generate_tts sees
\* the None and reports 'Failed to process audio'.
ConvertFails(p, cause) ==
    IF FinallyRaises(p.bound)
    THEN Exit(p, "failure", ErrUnbound, cause)
    ELSE Exit([p EXCEPT !.files = Cleanup(p.files, p.call)],
              "failure", ErrFailedToProcess, cause)

\* if len(text) > 5000 in tts_command; generate_tts has no such test.
TextCeiling == 5000

\* len(text) of the texts handed to generate_tts
PipeTextLens == {5000, 5001}

\* A call starts, builds the payload from the text as it is, and is
\* suspended in session.post.
GenerateTts(len) ==
    /\ pipe.pc \in {"idle", "done"}
    /\ pipe.call < MaxCalls
    /\ pipe' = [pipe EXCEPT !.call = @ + 1, !.pc = "post", !.bound = FALSE,
                            !.proc = "none", !.opened = FALSE, !.rc = 0,
                            !.downloaded = FALSE, !.started = FALSE,
                            !.msg = "", !.result = "none", !.error = "",
                            !.cause = "none", !.len = len, !.audio = 0,
                            !.meta = NoMeta]
    /\ UNCHANGED <<users, codes, history, nextId, now, dbLocked, reqs, last,
                 voices>>

ApiOutcomes == {"http", "provider", "nomsg", "nourl", "timeout", "error", "url"}

\* The answer to the synthesis request, up to the next suspension.
ApiRespond(outcome, msg) ==
    /\ pipe.pc = "post"
    /\ pipe' =
         CASE outcome = "http" ->
                Exit(pipe, "failure", ApiErrorText("500"), "http")
           [] outcome = "provider" ->
                Exit([pipe EXCEPT !.msg = msg], "failure",
                     ProviderErrorText(msg), "provider")
           [] outcome = "nomsg" ->
                Exit(pipe, "failure", ProviderErrorText("Unknown error"),
                     "nomsg")
           [] outcome = "nourl" ->
                Exit(pipe, "failure", ErrNoUrl, "nourl")
           [] outcome = "timeout" ->
                Exit(pipe, "failure", ErrTimeout, "api_timeout")
           [] outcome = "error" ->
                Exit(pipe, "failure", ErrConnection, "api_error")
           [] OTHER ->
                \* _download_and_convert issues session.get
                [pipe EXCEPT !.pc = "get", !.downloaded = TRUE]
    /\ UNCHANGED <<users, codes, history, nextId, now, dbLocked, reqs, last,
                 voices>>

DownloadOutcomes == {"200", "404", "error"}

\* The answer to session.get and, for a 200, the writing of the temporary
\* file up to the suspension in create_subprocess_exec.
Download(outcome, writeOk) ==
    /\ pipe.pc = "get"
    /\ pipe' =
         CASE outcome = "404" -> ConvertFails(pipe, "download_status")
           [] outcome = "error" -> ConvertFails(pipe, "download_error")
           [] OTHER ->
                LET made == [pipe EXCEPT !.files = @ \cup {Mp3(pipe.call)}]
                IN
                IF writeOk
                THEN [made EXCEPT !.bound = TRUE, !.pc = "spawn"]
                ELSE \* mp3_file.write raised before mp3_path = mp3_file.name
                     ConvertFails(made, "write")
    /\ UNCHANGED <<users, codes, history, nextId, now, dbLocked, reqs, last,
                 voices>>

\* create_subprocess_exec returns the process or raises (no ffmpeg).
Spawn(ok) ==
    /\ pipe.pc = "spawn"
    /\ pipe' = IF ok
               THEN [pipe EXCEPT !.pc = "communicate", !.proc = "running",
                                 !.started = TRUE]
               ELSE ConvertFails(pipe, "spawn")
    /\ UNCHANGED <<users, codes, history, nextId, now, dbLocked, reqs, last,
                 voices>>

\* The transcoder creates its output file.
TranscoderOpens ==
    /\ pipe.proc = "running"
    /\ ~pipe.opened
    /\ pipe' = [pipe EXCEPT !.opened = TRUE, !.files = @ \cup {Ogg(pipe.call)}]
    /\ UNCHANGED <<users, codes, history, nextId, now, dbLocked, reqs, last,
                 voices>>

\* The transcoder ends; it cannot end well without an output.
TranscoderExits(rc) ==
    /\ pipe.proc = "running"
    /\ rc = 0 => pipe.opened
    /\ pipe' = [pipe EXCEPT !.proc = "exited", !.rc = rc]
    /\ UNCHANGED <<users, codes, history, nextId, now, dbLocked, reqs, last,
                 voices>>

\* process.communicate() returns: the return code is tested, the output is
\* read and both files are unlinked.
TranscodeOkAlways(rc) == TRUE

\* if process.returncode != 0: return None
TranscodeOk(rc) == rc = 0

\* len(ogg_data) of the transcoder's output
AudioSizes == {0, 1}

Communicate(size) ==
    /\ pipe.pc = "communicate"
    /\ pipe.proc = "exited"
    /\ pipe' = IF ~TranscodeOk(pipe.rc)
               THEN ConvertFails(pipe, "transcode")
               ELSE LET read == [pipe EXCEPT
                                   !.files = Cleanup(pipe.files, pipe.call)]
                    IN
                    IF size = 0
                    THEN \* "if not audio_data" is true of empty bytes
                         Exit(read, "failure", ErrFailedToProcess, "empty")
                    ELSE Exit([read EXCEPT !.audio = size,
                                           !.meta = SuccessMeta],
                              "success", "", "ok")
    /\ UNCHANGED <<users, codes, history, nextId, now, dbLocked, reqs, last,
                 voices>>

\* The task is cancelled (client gone, wait_for expired) while suspended.
\* CancelledError passes "except Exception"; the finally clause runs and,
\* when it raises, its exception takes the place of the CancelledError.
\* The transcoder is not killed.
Cancel ==
    /\ pipe.pc \in {"post", "get", "spawn", "communicate"}
    /\ pipe' =
         IF pipe.pc = "post"
         THEN Exit(pipe, "cancelled", "", "cancel_post")
         ELSE IF FinallyRaises(pipe.bound)
         THEN Exit(pipe, "failure", ErrUnbound, "cancel_get")
         ELSE Exit([pipe EXCEPT
                      !.files = Cleanup(pipe.files, pipe.call),
                      !.stray = IF pipe.proc = "running" /\ ~pipe.opened
                                THEN @ \cup {pipe.call} ELSE @],
                   "cancelled", "", "cancel_convert")
    /\ UNCHANGED <<users, codes, history, nextId, now, dbLocked, reqs, last,
                 voices>>

\* A transcoder that outlived its call creates its output file.
StrayWrites(k) ==
    /\ k \in pipe.stray
    /\ pipe' = [pipe EXCEPT !.stray = @ \ {k}, !.files = @ \cup {Ogg(k)}]
    /\ UNCHANGED <<users, codes, history, nextId, now, dbLocked, reqs, last,
                 voices>>

\* --------------------------------------------------------------- add_voice
\* Database.add_voice: INSERT INTO voice_models; voice_id is UNIQUE, so a
\* duplicate raises and the except clause returns False.
AddVoiceReturns(vs, v, locked) == ~locked /\ v \notin vs

AddVoiceRows(vs, v, locked) ==
    IF AddVoiceReturns(vs, v, locked) THEN vs \cup {v} ELSE vs

\* "success = db.add_voice(voice_data)" in the route: add_voice is a
\* coroutine function and the call is not awaited, so its body never runs
\* and success is the coroutine object, which is truthy.
RouteAwaits == FALSE

\* POST /admin/voices/add
AddVoiceRoute(v) ==
    /\ voices' = IF RouteAwaits THEN AddVoiceRows(voices, v, dbLocked)
                 ELSE voices
    /\ dbLocked' = (dbLocked \/ (RouteAwaits /\ v \in voices))
    /\ last' = Result("add_voice", 0, v, 0,
                      IF RouteAwaits THEN AddVoiceReturns(voices, v, dbLocked)
                      ELSE TRUE,
                      MsgNone, FALSE, FALSE, 0, "none")
    /\ UNCHANGED <<users, codes, history, nextId, now, reqs, pipe>>

\* The ledger: the store's operations as the handlers and the admin panel
\* call them.
Next ==
    \/ Tick
    \/ CollectGarbage
    \/ \E u \in TelegramIds : AddUser(u)
    \/ \E t \in Tokens, q \in QuotaChoices, d \in DayChoices,
          m \in MaxUsersChoices : CreateAccessCode(t, q, d, m)
    \/ \E c \in Tokens : DeactivateCode(c)
    \/ \E u \in TelegramIds, c \in CodeInputs, f \in Faults :
          ActivateAccessCode(u, c, f)
    \/ \E u \in TelegramIds : CheckQuota(u)

Spec == Init /\ [][Next]_vars

\* The /tts handler running beside /start, /mycode and the admin panel.
NextTts ==
    \/ CollectGarbage
    \/ \E u \in TelegramIds : AddUser(u)
    \/ \E t \in Tokens, q \in QuotaChoices, m \in MaxUsersChoices :
          CreateAccessCode(t, q, 1, m)
    \/ \E u \in TelegramIds, c \in Tokens : ActivateAccessCode(u, c, "none")
    \/ \E u \in TtsSenders, n \in TextLens : TtsStart(u, n)
    \/ \E req \in BagToSet(reqs), ok \in BOOLEAN, gc \in BOOLEAN :
          TtsFinish(req, ok, gc)

SpecTts == Init /\ [][NextTts]_vars

\* /tts of a user whose code lapses: the code is issued for the current
\* day, redeemed, and then runs past its expiry or is switched off while
\* the user goes on sending /tts.
NextLapse ==
    \/ Tick
    \/ CollectGarbage
    \/ \E u \in TtsSenders : AddUser(u)
    \/ \E t \in Tokens : CreateAccessCode(t, 2, 0, 0)
    \/ \E c \in Tokens : DeactivateCode(c)
    \/ \E u \in TtsSenders, c \in Tokens : ActivateAccessCode(u, c, "none")
    \/ \E u \in TtsSenders, n \in TextLens : TtsStart(u, n)
    \/ \E req \in BagToSet(reqs), ok \in BOOLEAN, gc \in BOOLEAN :
          TtsFinish(req, ok, gc)

SpecLapse == Init /\ [][NextLapse]_vars

\* The admin panel: its two POST routes, with the clock, the collector and
\* the operator's kill switch.
NextAdmin ==
    \/ Tick
    \/ CollectGarbage
    \/ \E t \in Tokens, q \in QuotaChoices, d \in DayChoices,
          m \in MaxUsersChoices : CreateAccessCode(t, q, d, m)
    \/ \E c \in Tokens : DeactivateCode(c)
    \/ \E v \in VoiceIds : AddVoiceRoute(v)

SpecAdmin == Init /\ [][NextAdmin]_vars

\* The audio pipeline: generate_tts calls, one after the other.
NextPipe ==
    \/ \E len \in PipeTextLens : GenerateTts(len)
    \/ \E o \in ApiOutcomes, m \in ProviderMsgs : ApiRespond(o, m)
    \/ \E o \in DownloadOutcomes, w \in BOOLEAN : Download(o, w)
    \/ \E ok \in BOOLEAN : Spawn(ok)
    \/ TranscoderOpens
    \/ \E rc \in {0, 1} : TranscoderExits(rc)
    \/ \E size \in AudioSizes : Communicate(size)
    \/ Cancel
    \/ \E k \in 1..MaxCalls : StrayWrites(k)

SpecPipe == Init /\ [][NextPipe]_vars

\* The steps of a call that are bound to happen: aiohttp ends a request
\* after its default total timeout, create_subprocess_exec returns or
\* raises, and communicate() returns once the process has ended.  Nothing
\* bounds the transcoder itself.
HandlerStep ==
    \/ \E o \in ApiOutcomes, m \in ProviderMsgs : ApiRespond(o, m)
    \/ \E o \in DownloadOutcomes, w \in BOOLEAN : Download(o, w)
    \/ \E ok \in BOOLEAN : Spawn(ok)
    \/ \E size \in AudioSizes : Communicate(size)

SpecPipeLive == SpecPipe /\ WF_vars(HandlerStep)

\* ================================================================== claims
UserRowValid(row) == 0 <= row.quota_used /\ row.quota_used <= row.quota_total

UseQuotaCalled == last'.op = "tts" /\ last'.message # "error"
                  /\ last'.message # "insufficient"

\* C1: every use_quota call, whatever other /tts requests of the same user
\* are in flight, leaves quota_used <= quota_total on a row that satisfied
\* it, changes that user's quota_used by exactly the amount when it returns
\* true and by nothing when it returns false, and touches no other row; so
\* over any interleaving the amounts of the calls that returned true sum to
\* the increase of quota_used.
C1_DebitAccounting ==
    [][UseQuotaCalled =>
        LET u == last'.user
            n == last'.n
        IN
        /\ DOMAIN users' = DOMAIN users
        /\ \A t \in DOMAIN users : t # u => users'[t] = users[t]
        /\ u \in DOMAIN users =>
             /\ users'[u].quota_total = users[u].quota_total
             /\ users'[u].quota_used - users[u].quota_used
                  = IF last'.debit THEN n ELSE 0
             /\ UserRowValid(users[u]) => UserRowValid(users'[u])
        /\ u \notin DOMAIN users => ~last'.debit]_vars

\* Two requests of one user passed the pre-flight check on a balance that
\* covers only one of them; the first has called use_quota while the second
\* is still in flight.
C1_Witness ==
    /\ last.op = "tts" /\ last.message = "delivered" /\ last.n = 2
    /\ last.user \in DOMAIN users
    /\ users[last.user].quota_total = 2
    /\ \E req \in BagToSet(reqs) : req.user = last.user /\ req.n = 2

\* C2: every user row satisfies 0 <= quota_used <= quota_total.
C2_QuotaInvariant == \A u \in DOMAIN users : UserRowValid(users[u])

\* C3: a /tts request reports success only if its debit returned true.
C3_SuccessOnlyIfDebited ==
    (last.op = "tts" /\ last.success) => last.debit

\* C4: add_user on an existing user leaves access_code, quota_total and
\* quota_used of that user unchanged.
C4_RefreshKeepsQuota ==
    [][(last'.op = "add_user" /\ last'.user \in DOMAIN users) =>
        LET u == last'.user IN
        /\ users'[u].access_code = users[u].access_code
        /\ users'[u].quota_total = users[u].quota_total
        /\ users'[u].quota_used = users[u].quota_used]_vars

\* C5: after a successful activate_access_code(user, code) the user's row
\* carries the code, the code's quota_total and quota_used = 0, and the code
\* has one more user and quota_total more quota_used; for every caller.
C5_RedeemEffect ==
    [][(last'.op = "activate" /\ last'.success) =>
        LET u == last'.user
            c == last'.code
        IN
        /\ u \in DOMAIN users'
        /\ users'[u].access_code = c
        /\ users'[u].quota_total = codes[c].quota_total
        /\ users'[u].quota_used = 0
        /\ codes'[c].current_users = codes[c].current_users + 1
        /\ codes'[c].quota_used = codes[c].quota_used + codes[c].quota_total
      ]_vars

\* C6: after any activate_access_code call, faulty or not, either both the
\* user-row update and the code-row update are in the store or neither is.
C6_RedeemAllOrNothing ==
    [][last'.op = "activate" =>
        LET u == last'.user
            c == last'.code
            userDone ==
                /\ DOMAIN users' = DOMAIN users
                /\ \A t \in DOMAIN users : t # u => users'[t] = users[t]
                /\ u \in DOMAIN users =>
                     /\ users'[u].access_code = c
                     /\ users'[u].quota_total = codes[c].quota_total
                     /\ users'[u].quota_used = 0
                     /\ users'[u].id = users[u].id
            codeDone ==
                /\ c \in DOMAIN codes
                /\ codes'[c].current_users = codes[c].current_users + 1
                /\ codes'[c].quota_used
                     = codes[c].quota_used + codes[c].quota_total
        IN
        \/ users' = users /\ codes' = codes
        \/ userDone /\ codeDone]_vars

\* A redemption by a user who has a row was cut by a fault after its first
\* UPDATE.
C6_Witness ==
    /\ last.op = "activate" /\ last.fault = "between"
    /\ last.user \in DOMAIN users
    /\ users[last.user].access_code # last.code

\* C7: a code with max_users > 0 never has current_users > max_users.
C7_Capacity ==
    \A c \in DOMAIN codes :
        codes[c].max_users > 0 => codes[c].current_users <= codes[c].max_users

\* A code filled to its capacity has just refused one more redemption.
C7_Witness ==
    /\ last.op = "activate" /\ last.message = MsgLimit
    /\ codes[last.code].max_users = 2
    /\ codes[last.code].current_users = 2

PastExpiry(c) ==
    c \in DOMAIN codes /\ codes[c].expiry_date # NoExpiry
    /\ now > codes[c].expiry_date

\* C8 as stated: redeeming a code whose expiry_date is earlier than now
\* always fails with the expired outcome and changes nothing.
C8_ExpiredAlways ==
    [][(last'.op = "activate" /\ PastExpiry(last'.code)) =>
        /\ last'.message = MsgExpired
        /\ users' = users /\ codes' = codes]_vars

\* C8 amended: redeeming an active code whose expiry_date is earlier than
\* now fails with the expired outcome; redeeming any code past its
\* expiry_date changes neither the code nor any user row; a code is not
\* refused as expired when now equals expiry_date.
C8_Expired ==
    [][last'.op = "activate" =>
        LET c == last'.code IN
        /\ PastExpiry(c) =>
             /\ ~last'.success
             /\ codes[c].is_active => last'.message = MsgExpired
             /\ users' = users /\ codes' = codes
        /\ (c \in DOMAIN codes /\ now = codes[c].expiry_date) =>
             last'.message # MsgExpired]_vars

\* An active code past its expiry_date has just been refused as expired.
C8_Witness ==
    /\ last.op = "activate" /\ last.message = MsgExpired
    /\ codes[last.code].is_active
    /\ now > codes[last.code].expiry_date

C10_DisabledDistinct ==
    [][(last'.op = "activate" /\ last'.code \in DOMAIN codes
        /\ ~codes[last'.code].is_active) =>
        /\ ~last'.success
        /\ last'.message # ActivateCheck(<< >>, last'.code, now)]_vars

\* C11: the pre-flight check of a request of n characters lets it through
\* exactly when the user's remaining quota is at least n; a refused request
\* reports the remaining quota as available and starts no synthesis; a
\* request of exactly the remaining quota is let through and, once it has
\* been delivered, the remaining quota is 0.
C11_Preflight ==
    [][LET u == last'.user
           n == last'.n
       IN
       /\ last'.op = "tts_start" =>
            /\ u \in DOMAIN users /\ QuotaRemaining(users[u]) >= n
            /\ reqs' # reqs
       /\ (last'.op = "tts" /\ last'.message = "insufficient") =>
            /\ reqs' = reqs
            /\ u \in DOMAIN users =>
                 /\ QuotaRemaining(users[u]) < n
                 /\ last'.reported = QuotaRemaining(users[u])
       /\ (last'.op = "tts" /\ last'.message = "delivered"
           /\ u \in DOMAIN users /\ QuotaRemaining(users[u]) = n) =>
            QuotaRemaining(users'[u]) = 0]_vars

\* C12: get_user_quota returns no record for a user whose access_code is
\* null, as it does for a telegram id without a row.
C12_NoCodeNotFound ==
    [][(last'.op = "myquota"
        /\ (last'.user \in DOMAIN users =>
              users[last'.user].access_code = NULL)) =>
        /\ ~last'.success
        /\ last'.message = "no access code"]_vars

\* C13: use_quota(user, amount) returns true and adds amount to the user's
\* quota_used when quota_used + amount <= quota_total; otherwise, and for
\* an unknown user, it returns false and changes no user row.
C13_UseQuota ==
    [][UseQuotaCalled =>
        LET u == last'.user
            n == last'.n
        IN
        IF u \in DOMAIN users
           /\ users[u].quota_used + n <= users[u].quota_total
        THEN /\ last'.debit
             /\ users' = [users EXCEPT ![u].quota_used = @ + n]
        ELSE /\ ~last'.debit
             /\ users' = users]_vars

C15_CreateEffect ==
    [][\A t \in Tokens, q \in QuotaChoices, d \in DayChoices,
          m \in MaxUsersChoices :
        (CreateAccessCode(t, q, d, m) /\ last'.success) =>
            /\ last'.code = t
            /\ Len(t) = 4 + 15
            /\ \E draw \in Draws :
                 /\ t = "TTS-" \o Join(draw, 1)
                 /\ Len(draw) = 15
                 /\ \A i \in 1..Len(draw) : draw[i] \in Letters
            /\ t \notin DOMAIN codes
            /\ DOMAIN codes' = (DOMAIN codes) \cup {t}
            /\ \A c \in DOMAIN codes : codes'[c] = codes[c]
            /\ codes'[t] = [quota_total |-> q, quota_used |-> 0,
                            max_users |-> m, current_users |-> 0,
                            expiry_date |-> now + d, is_active |-> TRUE]
      ]_vars

\* A code of 2 characters for 2 users that expires in one day has just
\* been created.
C15_Witness ==
    /\ last.op = "create" /\ last.success
    /\ last.code \in DOMAIN codes
    /\ codes[last.code].quota_total = 2
    /\ codes[last.code].max_users = 2
    /\ codes[last.code].expiry_date = now + 1

\* C16: a create_access_code whose token is already the token of a code
\* returns no token, inserts nothing and leaves that code's row unchanged;
\* there is at most one row per token.
C16_Collision ==
    [][(last'.op = "create" /\ last'.code \in DOMAIN codes) =>
        /\ ~last'.success
        /\ codes' = codes]_vars

\* The token drawn was that of a code which had been redeemed already.
C16_Witness ==
    /\ last.op = "create" /\ last.fault = "unique"
    /\ last.code \in DOMAIN codes
    /\ codes[last.code].current_users > 0

C18_NoTempLeft ==
    \A k \in 1..pipe.call :
        (k < pipe.call \/ pipe.pc = "done") =>
            Mp3(k) \notin pipe.files /\ Ogg(k) \notin pipe.files

\* C19: when the provider answers with a non-zero status code, the call
\* returns a failure whose text contains the provider's message, and has
\* neither issued a download nor started the transcoder.
C19_ProviderError ==
    pipe.cause = "provider" =>
        /\ pipe.result = "failure"
        /\ \E prefix \in {"", "Minimax Error: "} :
             pipe.error = prefix \o pipe.msg
        /\ ~pipe.downloaded
        /\ ~pipe.started
        /\ Mp3(pipe.call) \notin pipe.files
        /\ Ogg(pipe.call) \notin pipe.files

\* The provider refused the request with a message of its own.
C19_Witness ==
    /\ pipe.pc = "done" /\ pipe.cause = "provider"
    /\ pipe.msg = "login fail"

C21_Returns ==
    (pipe.pc \in {"post", "get", "spawn", "communicate"}) ~> (pipe.pc = "done")

\* C26: for a text longer than the ceiling generate_tts issues no request
\* to the provider and returns a failure.
C26_Revalidates ==
    pipe.len > TextCeiling =>
        /\ pipe.pc \notin {"post", "get", "spawn", "communicate"}
        /\ pipe.pc = "done" => pipe.result = "failure" /\ ~pipe.downloaded

\* C28: a success result is returned only after the provider request, the
\* download and the transcoder have succeeded, and carries non-empty audio
\* with format ogg, sample rate 48000 and 1 channel; every other result
\* carries no audio.
C28_SuccessShape ==
    /\ pipe.result = "success" =>
         /\ pipe.downloaded /\ pipe.started
         /\ pipe.proc = "exited" /\ pipe.rc = 0 /\ pipe.opened
         /\ pipe.audio > 0
         /\ pipe.meta.format = "ogg"
         /\ pipe.meta.sample_rate = 48000
         /\ pipe.meta.channels = 1
    /\ pipe.result # "success" => pipe.audio = 0 /\ pipe.meta = NoMeta

\* The second call of a row has returned audio.
C28_Witness ==
    /\ pipe.pc = "done" /\ pipe.result = "success"
    /\ pipe.call = 2 /\ pipe.audio = 1
\* C22: a /tts request whose pre-flight check or whose synthesis fails
\* performs no debit and appends no usage record: the users table and the
\* usage history are as before; a debit or a usage record comes only from
\* the step that ends a request after its synthesis succeeded.
C22_FailureLeavesLedger ==
    [][/\ \A u \in TelegramIds, n \in TextLens :
            (TtsStart(u, n)
             /\ ~(u \in DOMAIN users /\ QuotaRemaining(users[u]) >= n)) =>
                /\ reqs' = reqs
                /\ users' = users /\ history' = history
       /\ \A req \in BagToSet(reqs), gc \in BOOLEAN :
            TtsFinish(req, FALSE, gc) =>
                /\ users' = users /\ history' = history
                /\ codes' = codes /\ dbLocked' = dbLocked
       /\ (history' # history \/ last'.debit) =>
            (last'.op = "tts" /\ last'.message = "delivered")]_vars

\* The synthesis failed for a request that the balance covered.
C22_Witness ==
    /\ last.op = "tts" /\ last.message = "error"
    /\ last.user \in DOMAIN users
    /\ QuotaRemaining(users[last.user]) >= last.n

\* C23: the remaining quota reported with a delivered /tts result is the
\* user's remaining quota in the store after that request.
C23_ReportedFresh ==
    (last.op = "tts" /\ last.success /\ last.user \in DOMAIN users) =>
        last.reported = QuotaRemaining(users[last.user])

\* C24: what use_quota returns after a storage fault differs from what it
\* returns when the debit is not applied for lack of quota.
C24_FaultDistinct ==
    [][(UseQuotaCalled
        /\ UseQuotaRaises(users, last'.user, last'.n, dbLocked)) =>
        last'.debit # UseQuotaReturns(<< >>, last'.user, last'.n, FALSE)]_vars

\* C27: the usage history only grows: every step leaves the records there
\* were in place and unchanged.
C27_AppendOnly ==
    [][/\ Len(history') >= Len(history)
       /\ SubSeq(history', 1, Len(history)) = history]_vars

\* A user with a usage record has been given a new row by /start, and a
\* later request's record could not be written.
C27_Witness ==
    /\ Len(history) > 0
    /\ \A t \in DOMAIN users : users[t].id # history[1].user_id
    /\ last.op = "tts" /\ last.message = "delivered" /\ ~last.histOk
\* A redemption of code c has just been refused because the code is at
\* capacity, past its expiry or inactive.
RefusedForGood(c) ==
    /\ last.op = "activate" /\ last.code = c /\ c \in DOMAIN codes
    /\ last.message \in {MsgLimit, MsgExpired, MsgInvalid}

Redeemed(c) == last.op = "activate" /\ last.code = c /\ last.success

\* C25: once a redemption of a code has been refused because the code is
\* at capacity, past its expiry or inactive, no later redemption of that
\* code succeeds; no step removes a code row, lowers its current_users or
\* changes its max_users, expiry_date or quota_total.
C25_Terminal ==
    /\ [][\A c \in DOMAIN codes :
            /\ c \in DOMAIN codes'
            /\ codes'[c].current_users >= codes[c].current_users
            /\ codes'[c].max_users = codes[c].max_users
            /\ codes'[c].expiry_date = codes[c].expiry_date
            /\ codes'[c].quota_total = codes[c].quota_total]_vars
    /\ \A c \in Tokens : [](RefusedForGood(c) => []~Redeemed(c))

\* A code that refused a redemption for capacity is asked again.
C25_Witness ==
    /\ last.op = "activate" /\ last.message = MsgLimit
    /\ last.code \in DOMAIN codes
    /\ codes[last.code].current_users = 2
    /\ now = 1

C29_VoiceRegistered ==
    [][last'.op = "add_voice" =>
        IF last'.success
        THEN /\ last'.code \notin voices
             /\ voices' = voices \cup {last'.code}
        ELSE voices' = voices]_vars
\* C31: the user_id of every usage record is the id of a row of the users
\* table, also after a later add_user of that user.
C31_HistoryOwner ==
    \A i \in 1..Len(history) :
        \E t \in DOMAIN users : users[t].id = history[i].user_id

\* C32: a usage record is appended for a /tts request only if the
\* request's debit was applied: the step that appends a record of n
\* characters for a user adds n to that user's quota_used, so the records
\* appended since the user's last redemption or refresh sum to quota_used.
C32_RecordOnlyIfDebited ==
    [][history' # history =>
        LET u == last'.user
            n == last'.n
        IN
        /\ last'.op = "tts" /\ last'.debit
        /\ u \in DOMAIN users
        /\ users'[u].quota_used = users[u].quota_used + n]_vars

\* The user rows that carry code c.
Holders(c) == {t \in DOMAIN users : users[t].access_code = c}

\* C34: for every access code the number of user rows whose access_code is
\* that code is at most the code's current_users.
C34_HoldersCounted ==
    \A c \in DOMAIN codes : Cardinality(Holders(c)) <= codes[c].current_users

\* Both users hold a code whose two redemptions are theirs.
C34_Witness ==
    \E c \in DOMAIN codes :
        /\ Cardinality(Holders(c)) = 2
        /\ codes[c].current_users = 2
        /\ last.op = "activate" /\ last.success
\* User u holds a code that is past its expiry_date or has is_active = 0.
Lapsed(u) ==
    /\ u \in DOMAIN users
    /\ users[u].access_code \in DOMAIN codes
    /\ \/ PastExpiry(users[u].access_code)
       \/ ~codes[users[u].access_code].is_active

\* C33: the pre-flight and the debit look only at the user's quota_total
\* and quota_used: a /tts of a user whose code is past its expiry_date or
\* inactive is authorized exactly when the remaining quota covers the text,
\* and its use_quota call debits the row when the remaining quota covers
\* the amount.
C33_OwnQuotaOnly ==
    [][\A u \in TtsSenders : Lapsed(u) =>
        /\ \A n \in TextLens : TtsStart(u, n) =>
              (last'.op = "tts_start" <=> QuotaRemaining(users[u]) >= n)
        /\ (UseQuotaCalled /\ last'.user = u
               /\ QuotaRemaining(users[u]) >= last'.n) =>
              /\ last'.debit
              /\ users'[u].quota_used = users[u].quota_used + last'.n]_vars
====
